---- MODULE Spec2Model ----
(***************************************************************************)
(* rational_pemdas: exact-rational expression evaluator.                   *)
(*                                                                         *)
(*   text -> tokenize -> shunting_yard -> Tree::from -> Tree::evaluate     *)
(*                                                                         *)
(* Spec      : the whole pipeline (main.rs calc) run on one input line.    *)
(* SpecTokenize : tokenize alone on one input line, with the fairness of a  *)
(*             running sequential loop.                                    *)
(* SpecParse : shunting_yard, Tree::from and evaluate run on a token       *)
(*             sequence drawn from the grammar.                            *)
(* SpecValue : the Value arithmetic (value.rs) applied to drawn operands.  *)
(*                                                                         *)
(* A Rust panic is modelled as the outcome [kind |-> "Panic", msg |-> m];  *)
(* the program has no other failure channel (no Result is ever returned).  *)
(* Strings are sequences of one-character strings; Rust's 0-based scan     *)
(* index idx is kept 1-based here (idx = rust_idx + 1).                    *)
(***************************************************************************)
EXTENDS Integers, Sequences, FiniteSets, TLC

VARIABLES
    pc,         \* position in the pipeline / in the arithmetic harness
    source,     \* the input line handed to calc / Tree::new
    cleaned,    \* tokenize: the filtered character string
    idx,        \* tokenize: scan index (1-based)
    buffer,     \* tokenize: numeric accumulation buffer
    visits,     \* tokenize: loop iterations run at each index of cleaned
    tokens,     \* tokenize: emitted tokens; then shunting_yard's input
    pos,        \* loop position of shunting_yard / Tree::from (1-based)
    output,     \* shunting_yard: output queue; then Tree::from's stream
    opstack,    \* shunting_yard: operator stack
    stack,      \* Tree::from: node stack
    root,       \* Tree.root as <<node>>, <<>> before construction
    outcome,    \* what calc produced: a Value, a Panic, or None
    lhs,        \* SpecValue: left operand
    rhs,        \* SpecValue: right operand
    res,        \* SpecValue: current result of the applied operation
    applied     \* SpecValue: operations applied so far, oldest first

vars == <<pc, source, cleaned, idx, buffer, visits, tokens, pos, output,
          opstack, stack, root, outcome, lhs, rhs, res, applied>>

(***************************************************************************)
(* Bounds                                                                  *)
(***************************************************************************)
MaxSrcLen == 3     \* every input line of at most this many characters
MaxLit == 12       \* literals 0..MaxLit in the generated "a/b", "-a + -b"
MaxQuot == 1       \* SpecValue: |quotient| of a drawn Rational
MaxRem == 3        \* SpecValue: |remainder|, |divisor|, |i| of an operand
MaxApplied == 3    \* SpecValue: operations applied to one pair of operands
MaxTokLen == 7     \* SpecParse: tokens in a sentence of the grammar

(***************************************************************************)
(* Integer helpers                                                         *)
(***************************************************************************)
Abs(x) == IF x < 0 THEN -x ELSE x

\* Rust's i64 `/` truncates toward zero (TLA+ \div floors); b # 0 required.
TruncDiv(a, b) ==
    IF (a < 0) = (b < 0) THEN Abs(a) \div Abs(b) ELSE -(Abs(a) \div Abs(b))

RECURSIVE Euclid(_, _)
Euclid(a, b) == IF b = 0 THEN a ELSE Euclid(b, a % b)

\* num::integer::gcd on i64: the non-negative gcd, gcd(0, 0) = 0.
gcd(a, b) == Euclid(Abs(a), Abs(b))

\* num::integer::lcm on i64: |a * (b / gcd(a, b))|, and 0 for lcm(0, 0).
lcm(a, b) == IF a = 0 /\ b = 0 THEN 0 ELSE Abs(a * TruncDiv(b, gcd(a, b)))

RECURSIVE Pow10(_)
Pow10(n) == IF n = 0 THEN 1 ELSE 10 * Pow10(n - 1)

(***************************************************************************)
(* Value (value.rs)                                                        *)
(***************************************************************************)
Integer(i) == [kind |-> "Integer", i |-> i]

Rational(q, r, d) ==
    [kind |-> "Rational", quotient |-> q, remainder |-> r, divisor |-> d]

Panic(m) == [kind |-> "Panic", msg |-> m]

None == [kind |-> "None"]

IsPanic(o) == o.kind = "Panic"

DivideByZeroMsg == "attempt to divide by zero"

\* Value::simplify with the absorb step taking one divisor instead of
\* remainder / divisor of them.
simplify_absorb_once(v) ==
    IF v.kind = "Integer" THEN v
    ELSE LET common == gcd(v.remainder, v.divisor)
             r1 == IF common # v.divisor
                   THEN TruncDiv(v.remainder, common) ELSE v.remainder
             d1 == IF common # v.divisor
                   THEN TruncDiv(v.divisor, common) ELSE v.divisor
         IN  IF d1 = 0 THEN Panic(DivideByZeroMsg)
             ELSE LET k == TruncDiv(r1, d1)
                      q2 == IF k # 0 THEN v.quotient + 1 ELSE v.quotient
                      r2 == IF k # 0 THEN r1 - d1 ELSE r1
                  IN  IF r2 # 0 THEN Rational(q2, r2, d1) ELSE Integer(q2)

\* Value::simplify.  `remainder / divisor` panics when divisor is 0; the
\* gcd reduction cannot (common = 0 only when it equals divisor).
simplify(v) ==
    IF v.kind = "Integer" THEN v
    ELSE LET common == gcd(v.remainder, v.divisor)
             r1 == IF common # v.divisor
                   THEN TruncDiv(v.remainder, common) ELSE v.remainder
             d1 == IF common # v.divisor
                   THEN TruncDiv(v.divisor, common) ELSE v.divisor
         IN  IF d1 = 0 THEN Panic(DivideByZeroMsg)
             ELSE LET k == TruncDiv(r1, d1)
                      q2 == IF k # 0 THEN v.quotient + k ELSE v.quotient
                      r2 == IF k # 0 THEN r1 - d1 * k ELSE r1
                  IN  IF r2 # 0 THEN Rational(q2, r2, d1) ELSE Integer(q2)

\* impl PartialEq<i64> for Value: a Rational never equals an i64.
Value_eq_i64(v, n) == v.kind = "Integer" /\ v.i = n

\* divisor.checked_div(d).unwrap_or(1)
checked_div_or_1(a, b) == IF b = 0 THEN 1 ELSE TruncDiv(a, b)

\* impl Add for Value.  The mixed arm binds the Integer to `rhs` whichever
\* side it is on and returns without simplify.
Value_add(a, b) ==
    IF a.kind = "Integer" /\ b.kind = "Integer" THEN Integer(a.i + b.i)
    ELSE IF a.kind = "Rational" /\ b.kind = "Integer"
    THEN Rational(a.quotient + b.i, a.remainder, a.divisor)
    ELSE IF a.kind = "Integer" /\ b.kind = "Rational"
    THEN Rational(b.quotient + a.i, b.remainder, b.divisor)
    ELSE LET divisor == lcm(a.divisor, b.divisor)
             quotient == a.quotient + b.quotient
             remainder ==
                 a.remainder * checked_div_or_1(divisor, a.divisor)
                 + b.remainder * checked_div_or_1(divisor, b.divisor)
         IN  simplify(Rational(quotient, remainder, divisor))

\* impl Sub for Value.  The mixed arm computes quotient - rhs where rhs is
\* the Integer operand, whichever side it is on.
Value_sub(a, b) ==
    IF a.kind = "Integer" /\ b.kind = "Integer" THEN Integer(a.i - b.i)
    ELSE IF a.kind = "Rational" /\ b.kind = "Integer"
    THEN Rational(a.quotient - b.i, a.remainder, a.divisor)
    ELSE IF a.kind = "Integer" /\ b.kind = "Rational"
    THEN Rational(b.quotient - a.i, b.remainder, b.divisor)
    ELSE LET divisor == lcm(a.divisor, b.divisor)
             quotient == a.quotient - b.quotient
             remainder ==
                 a.remainder * checked_div_or_1(divisor, a.divisor)
                 - b.remainder * checked_div_or_1(divisor, b.divisor)
         IN  simplify(Rational(quotient, remainder, divisor))

\* Rational * Rational arm of impl Mul.
Value_mul_rr(a, b) ==
    LET remainder == (a.quotient * a.divisor + a.remainder)
                     * (b.quotient * b.divisor + b.remainder)
        divisor == a.divisor * b.divisor
    IN  simplify(Rational(0, remainder, divisor))

\* impl Mul for Value.  Mixed: Rational * Rational{rhs, 0, 1}.
Value_mul(a, b) ==
    IF a.kind = "Integer" /\ b.kind = "Integer" THEN Integer(a.i * b.i)
    ELSE IF a.kind = "Rational" /\ b.kind = "Integer"
    THEN Value_mul_rr(a, Rational(b.i, 0, 1))
    ELSE IF a.kind = "Integer" /\ b.kind = "Rational"
    THEN Value_mul_rr(b, Rational(a.i, 0, 1))
    ELSE Value_mul_rr(a, b)

\* Rational / Rational arm of impl Div.
Value_div_rr(a, b) ==
    LET remainder == (a.quotient * a.divisor + a.remainder) * b.divisor
        divisor == a.divisor * (b.quotient * b.divisor + b.remainder)
    IN  simplify(Rational(0, remainder, divisor))

\* impl Div for Value.  Mixed: the Rational operand is always the dividend
\* and the Integer the divisor, whichever side each was on.
Value_div(a, b) ==
    IF a.kind = "Integer" /\ b.kind = "Integer"
    THEN simplify(Rational(0, a.i, b.i))
    ELSE IF a.kind = "Rational" /\ b.kind = "Integer"
    THEN Value_div_rr(a, Rational(b.i, 0, 1))
    ELSE IF a.kind = "Integer" /\ b.kind = "Rational"
    THEN Value_div_rr(b, Rational(a.i, 0, 1))
    ELSE Value_div_rr(a, b)

\* impl Neg for Value: a Rational with quotient 0 gets quotient -1.
Value_neg(v) ==
    IF v.kind = "Integer" THEN Integer(-v.i)
    ELSE Rational(IF v.quotient = 0 THEN -1 ELSE -v.quotient,
                  v.remainder, v.divisor)

\* Operator::evaluate.
Operator_evaluate(op, left, right) ==
    CASE op = "Add" -> Value_add(left, right)
      [] op = "Sub" -> Value_sub(left, right)
      [] op = "Mul" -> Value_mul(left, right)
      [] op = "Div" -> IF Value_eq_i64(right, 0)
                       THEN Panic("Divide by zero")
                       ELSE Value_div(left, right)
      [] op = "USub" -> Value_neg(right)

(***************************************************************************)
(* Tokens (lex.rs)                                                         *)
(***************************************************************************)
OpTok(o) == [type |-> "Operator", op |-> o]

ValTok(v) == [type |-> "Value", value |-> v]

ParenTok(p) == [type |-> "Paren", paren |-> p]

DigitChars == <<"0", "1", "2", "3", "4", "5", "6", "7", "8", "9">>

Digit == {DigitChars[i] : i \in 1..10}

DigitVal(c) == (CHOOSE i \in 1..10 : DigitChars[i] = c) - 1

\* The filter string of tokenize: "1234567890./*-+^()".
FilterSet == Digit \cup {".", "/", "*", "-", "+", "^", "(", ")"}

\* Operator::from_char ('u' is not in FilterSet, so tokenize never sees it).
OperatorChars == {"+", "-", "*", "/", "u"}

Operator_from_char(c) ==
    CASE c = "+" -> "Add"
      [] c = "-" -> "Sub"
      [] c = "*" -> "Mul"
      [] c = "/" -> "Div"
      [] c = "u" -> "USub"

\* Paren::from_char.
ParenChars == {"(", ")"}

Paren_from_char(c) == IF c = "(" THEN "Left" ELSE "Right"

\* tokenize with the filter step left out: cleaned is s itself.
Filter_identity(s) == s

\* s.chars().filter(|&c| "1234567890./*-+^()".contains(c)).collect()
RECURSIVE Filter(_)
Filter(s) ==
    IF s = <<>> THEN <<>>
    ELSE IF Head(s) \in FilterSet THEN <<Head(s)>> \o Filter(Tail(s))
    ELSE Filter(Tail(s))

RECURSIVE CountDots(_)
CountDots(s) ==
    IF s = <<>> THEN 0
    ELSE (IF Head(s) = "." THEN 1 ELSE 0) + CountDots(Tail(s))

\* Number of characters after the first '.', 0 when there is none.
RECURSIVE FracLen(_)
FracLen(s) ==
    IF s = <<>> THEN 0
    ELSE IF Head(s) = "." THEN Len(s) - 1 ELSE FracLen(Tail(s))

\* The integer spelled by the digits of s, '.' skipped.
RECURSIVE DigitsValue(_, _)
DigitsValue(s, acc) ==
    IF s = <<>> THEN acc
    ELSE IF Head(s) = "." THEN DigitsValue(Tail(s), acc)
    ELSE DigitsValue(Tail(s), 10 * acc + DigitVal(Head(s)))

\* s.parse::<f64>() on a buffer of digits and '.': Ok iff there is at least
\* one digit and at most one '.' ("1.", ".5" parse; ".", "1.2.3" do not).
parse_f64_ok(s) == CountDots(s) <= 1 /\ Len(s) - CountDots(s) >= 1

\* impl From<f64> for Value on the parsed literal: the decimal as a reduced
\* ratio numer/denom, stored as Rational{0, numer, denom}; no simplify.
Value_from_f64(s) ==
    LET n == DigitsValue(s, 0)
        d == Pow10(FracLen(s))
        g == gcd(n, d)
    IN  Rational(0, TruncDiv(n, g), TruncDiv(d, g))

\* tokens.last().unwrap_or(&Token::Operator(Operator::Add))
last_or_add(toks) == IF toks = <<>> THEN OpTok("Add") ELSE toks[Len(toks)]

\* The unary-minus test of tokenize with the buffer.is_empty() conjuncts
\* dropped.
is_unary_minus_any_buffer(toks, buf, c) ==
    /\ \/ last_or_add(toks).type = "Operator"
       \/ last_or_add(toks) = ParenTok("Left")
    /\ c = "-"

\* The unary-minus test of tokenize: the match on the last token and the
\* `buffer.is_empty() && c == '-' && buffer.is_empty()` condition.
is_unary_minus(toks, buf, c) ==
    /\ \/ last_or_add(toks).type = "Operator"
       \/ last_or_add(toks) = ParenTok("Left")
    /\ buf = <<>>
    /\ c = "-"

(***************************************************************************)
(* tokenize, one action per branch of the scan loop                        *)
(***************************************************************************)
valueVars == <<lhs, rhs, res, applied>>

Scanning == pc = "tokenize" /\ idx <= Len(cleaned)

\* Entry of tokenize: build `cleaned`, idx = 0.
TokStart ==
    /\ pc = "start"
    /\ cleaned' = Filter(source)
    /\ idx' = 1
    /\ pc' = "tokenize"
    /\ UNCHANGED <<source, buffer, tokens, pos, output, opstack, stack,
                   root, outcome>>
    /\ visits' = [i \in 1..Len(Filter(source)) |-> 0]
    /\ UNCHANGED valueVars

\* '-' after nothing, an operator or '(' with an empty buffer: push USub.
TokUnaryMinus ==
    /\ Scanning
    /\ is_unary_minus(tokens, buffer, cleaned[idx])
    /\ tokens' = Append(tokens, OpTok("USub"))
    /\ idx' = idx + 1
    /\ UNCHANGED <<pc, source, cleaned, buffer, pos, output, opstack, stack,
                   root, outcome>>
    /\ visits' = [visits EXCEPT ![idx] = @ + 1]
    /\ UNCHANGED valueVars

\* c.is_numeric() || c == '.': push c to the buffer.
TokNumber ==
    /\ Scanning
    /\ ~is_unary_minus(tokens, buffer, cleaned[idx])
    /\ cleaned[idx] \in Digit \cup {"."}
    /\ buffer' = Append(buffer, cleaned[idx])
    /\ idx' = idx + 1
    /\ UNCHANGED <<pc, source, cleaned, tokens, pos, output, opstack, stack,
                   root, outcome>>
    /\ visits' = [visits EXCEPT ![idx] = @ + 1]
    /\ UNCHANGED valueVars

\* TokCommit without `buffer = String::new()`: the buffer is kept.
TokCommit_keeps_buffer ==
    /\ Scanning
    /\ ~is_unary_minus(tokens, buffer, cleaned[idx])
    /\ cleaned[idx] \notin Digit \cup {"."}
    /\ buffer # <<>>
    /\ parse_f64_ok(buffer)
    /\ tokens' = Append(tokens, ValTok(Value_from_f64(buffer)))
    /\ buffer' = buffer
    /\ idx' = idx
    /\ UNCHANGED <<pc, source, cleaned, pos, output, opstack, stack, root,
                   outcome>>
    /\ visits' = [visits EXCEPT ![idx] = @ + 1]
    /\ UNCHANGED valueVars

\* Not a number and the buffer is not empty: commit the buffer as a value
\* token, idx -= 1 then idx += 1 (the same character is scanned again).
TokCommit ==
    /\ Scanning
    /\ ~is_unary_minus(tokens, buffer, cleaned[idx])
    /\ cleaned[idx] \notin Digit \cup {"."}
    /\ buffer # <<>>
    /\ parse_f64_ok(buffer)
    /\ tokens' = Append(tokens, ValTok(Value_from_f64(buffer)))
    /\ buffer' = <<>>
    /\ idx' = idx
    /\ UNCHANGED <<pc, source, cleaned, pos, output, opstack, stack, root,
                   outcome>>
    /\ visits' = [visits EXCEPT ![idx] = @ + 1]
    /\ UNCHANGED valueVars

\* buffer.parse().expect("Failed to parse buffer: ..") on a bad literal.
TokCommitPanic ==
    /\ Scanning
    /\ ~is_unary_minus(tokens, buffer, cleaned[idx])
    /\ cleaned[idx] \notin Digit \cup {"."}
    /\ buffer # <<>>
    /\ ~parse_f64_ok(buffer)
    /\ outcome' = Panic("Failed to parse buffer")
    /\ pc' = "done"
    /\ UNCHANGED <<source, cleaned, idx, buffer, tokens, pos, output,
                   opstack, stack, root>>
    /\ visits' = [visits EXCEPT ![idx] = @ + 1]
    /\ UNCHANGED valueVars

\* Operator::from_char(c) is Some.
TokOperator ==
    /\ Scanning
    /\ ~is_unary_minus(tokens, buffer, cleaned[idx])
    /\ buffer = <<>>
    /\ cleaned[idx] \in OperatorChars
    /\ tokens' = Append(tokens, OpTok(Operator_from_char(cleaned[idx])))
    /\ idx' = idx + 1
    /\ UNCHANGED <<pc, source, cleaned, buffer, pos, output, opstack, stack,
                   root, outcome>>
    /\ visits' = [visits EXCEPT ![idx] = @ + 1]
    /\ UNCHANGED valueVars

\* Paren::from_char(c) is Some.
TokParen ==
    /\ Scanning
    /\ buffer = <<>>
    /\ cleaned[idx] \in ParenChars
    /\ tokens' = Append(tokens, ParenTok(Paren_from_char(cleaned[idx])))
    /\ idx' = idx + 1
    /\ UNCHANGED <<pc, source, cleaned, buffer, pos, output, opstack, stack,
                   root, outcome>>
    /\ visits' = [visits EXCEPT ![idx] = @ + 1]
    /\ UNCHANGED valueVars

\* '^' passes the filter but is neither an operator nor a paren: no branch
\* of the if chain takes it, only idx += 1.
TokNoBranch ==
    /\ Scanning
    /\ buffer = <<>>
    /\ cleaned[idx] \notin Digit \cup {"."} \cup OperatorChars \cup ParenChars
    /\ idx' = idx + 1
    /\ UNCHANGED <<pc, source, cleaned, buffer, tokens, pos, output, opstack,
                   stack, root, outcome>>
    /\ visits' = [visits EXCEPT ![idx] = @ + 1]
    /\ UNCHANGED valueVars

\* Loop exit: flush a trailing buffer, return tokens to shunting_yard.
TokEnd ==
    /\ pc = "tokenize"
    /\ idx > Len(cleaned)
    /\ buffer # <<>> => parse_f64_ok(buffer)
    /\ tokens' = IF buffer = <<>> THEN tokens
                 ELSE Append(tokens, ValTok(Value_from_f64(buffer)))
    /\ buffer' = <<>>
    /\ pos' = 1
    /\ pc' = "shunting_yard"
    /\ UNCHANGED <<source, cleaned, idx, output, opstack, stack, root,
                   outcome>>
    /\ UNCHANGED visits
    /\ UNCHANGED valueVars

\* buffer.parse().expect("Failed to parse token from buffer") at the end.
TokEndPanic ==
    /\ pc = "tokenize"
    /\ idx > Len(cleaned)
    /\ buffer # <<>>
    /\ ~parse_f64_ok(buffer)
    /\ outcome' = Panic("Failed to parse token from buffer")
    /\ pc' = "done"
    /\ UNCHANGED <<source, cleaned, idx, buffer, tokens, pos, output,
                   opstack, stack, root>>
    /\ UNCHANGED visits
    /\ UNCHANGED valueVars

(***************************************************************************)
(* shunting_yard, one action per token kind of the for loop                *)
(***************************************************************************)
\* fn precedence.
precedence(t) ==
    IF t.type = "Operator"
    THEN CASE t.op = "Add" -> 2
           [] t.op = "Sub" -> 2
           [] t.op = "Mul" -> 3
           [] t.op = "Div" -> 3
           [] t.op = "USub" -> 5
    ELSE 0

\* impl From<Token> for OperatorAssociativity.
OperatorAssociativity(t) ==
    IF t = OpTok("USub") THEN "Right" ELSE "Left"

\* The break condition with `<=` in the left-associative arm as well.
stops_popping_le(token, o) == precedence(o) <= precedence(token)

\* The break condition of the operator arm's while loop.
stops_popping(token, o) ==
    IF OperatorAssociativity(token) = "Left"
    THEN precedence(o) < precedence(token)
    ELSE precedence(o) <= precedence(token)

\* The operator arm's while loop: <<output, opstack>> after popping.
RECURSIVE pop_operators(_, _, _)
pop_operators(token, out, stk) ==
    IF stk = <<>> THEN <<out, stk>>
    ELSE LET o == stk[Len(stk)]
         IN  IF o.type = "Paren" THEN <<out, stk>>
             ELSE IF stops_popping(token, o) THEN <<out, stk>>
             ELSE pop_operators(token, Append(out, o),
                                SubSeq(stk, 1, Len(stk) - 1))

\* The right-paren arm's while loop: pop to the output until a left paren
\* has been popped or the stack is empty.
RECURSIVE pop_to_left_paren(_, _)
pop_to_left_paren(out, stk) ==
    IF stk = <<>> THEN <<out, stk>>
    ELSE LET top == stk[Len(stk)]
             rest == SubSeq(stk, 1, Len(stk) - 1)
         IN  IF top = ParenTok("Left") THEN <<out, rest>>
             ELSE pop_to_left_paren(Append(out, top), rest)

\* The final `while let Some(top) = opstack.pop()`: everything left on the
\* stack goes to the output, top first, parens included.
RECURSIVE pop_all(_, _)
pop_all(out, stk) ==
    IF stk = <<>> THEN out
    ELSE pop_all(Append(out, stk[Len(stk)]), SubSeq(stk, 1, Len(stk) - 1))

Shunting == pc = "shunting_yard" /\ pos <= Len(tokens)

SYValue ==
    /\ Shunting
    /\ tokens[pos].type = "Value"
    /\ output' = Append(output, tokens[pos])
    /\ pos' = pos + 1
    /\ UNCHANGED <<pc, source, cleaned, idx, buffer, tokens, opstack, stack,
                   root, outcome>>
    /\ UNCHANGED visits
    /\ UNCHANGED valueVars

SYOperator ==
    /\ Shunting
    /\ tokens[pos].type = "Operator"
    /\ LET r == pop_operators(tokens[pos], output, opstack)
       IN  /\ output' = r[1]
           /\ opstack' = Append(r[2], tokens[pos])
    /\ pos' = pos + 1
    /\ UNCHANGED <<pc, source, cleaned, idx, buffer, tokens, stack, root,
                   outcome>>
    /\ UNCHANGED visits
    /\ UNCHANGED valueVars

SYLeftParen ==
    /\ Shunting
    /\ tokens[pos] = ParenTok("Left")
    /\ opstack' = Append(opstack, tokens[pos])
    /\ pos' = pos + 1
    /\ UNCHANGED <<pc, source, cleaned, idx, buffer, tokens, output, stack,
                   root, outcome>>
    /\ UNCHANGED visits
    /\ UNCHANGED valueVars

SYRightParen ==
    /\ Shunting
    /\ tokens[pos] = ParenTok("Right")
    /\ LET r == pop_to_left_paren(output, opstack)
       IN  /\ output' = r[1]
           /\ opstack' = r[2]
    /\ pos' = pos + 1
    /\ UNCHANGED <<pc, source, cleaned, idx, buffer, tokens, stack, root,
                   outcome>>
    /\ UNCHANGED visits
    /\ UNCHANGED valueVars

\* End of the for loop: clear the operator stack and return the output to
\* Tree::from.
SYEnd ==
    /\ pc = "shunting_yard"
    /\ pos > Len(tokens)
    /\ output' = pop_all(output, opstack)
    /\ opstack' = <<>>
    /\ pos' = 1
    /\ pc' = "tree_from"
    /\ UNCHANGED <<source, cleaned, idx, buffer, tokens, stack, root,
                   outcome>>
    /\ UNCHANGED visits
    /\ UNCHANGED valueVars

(***************************************************************************)
(* impl From<Vec<Token>> for Tree, one action per arm of the for loop      *)
(***************************************************************************)
\* Node: left and right are Option<Box<Node>>, <<>> for None, <<n>> for Some.
Node_new(t) == [token |-> t, left |-> <<>>, right |-> <<>>]

Building == pc = "tree_from" /\ pos <= Len(output)

TreeValue ==
    /\ Building
    /\ output[pos].type = "Value"
    /\ stack' = Append(stack, Node_new(output[pos]))
    /\ pos' = pos + 1
    /\ UNCHANGED <<pc, source, cleaned, idx, buffer, tokens, output, opstack,
                   root, outcome>>
    /\ UNCHANGED visits
    /\ UNCHANGED valueVars

TreeUSub ==
    /\ Building
    /\ output[pos] = OpTok("USub")
    /\ Len(stack) >= 1
    /\ LET value == stack[Len(stack)]
           node == [Node_new(output[pos]) EXCEPT !.right = <<value>>]
       IN  stack' = Append(SubSeq(stack, 1, Len(stack) - 1), node)
    /\ pos' = pos + 1
    /\ UNCHANGED <<pc, source, cleaned, idx, buffer, tokens, output, opstack,
                   root, outcome>>
    /\ UNCHANGED visits
    /\ UNCHANGED valueVars

\* stack.pop().expect("Unable to pop from empty stack")
TreeUSubPanic ==
    /\ Building
    /\ output[pos] = OpTok("USub")
    /\ Len(stack) = 0
    /\ outcome' = Panic("Unable to pop from empty stack")
    /\ pc' = "done"
    /\ UNCHANGED <<source, cleaned, idx, buffer, tokens, pos, output,
                   opstack, stack, root>>
    /\ UNCHANGED visits
    /\ UNCHANGED valueVars

\* The first pop is the right child, the second the left child.
TreeBinary ==
    /\ Building
    /\ output[pos].type = "Operator"
    /\ output[pos] # OpTok("USub")
    /\ Len(stack) >= 2
    /\ LET a == stack[Len(stack)]
           b == stack[Len(stack) - 1]
           node == [Node_new(output[pos]) EXCEPT !.right = <<a>>,
                                                 !.left = <<b>>]
       IN  stack' = Append(SubSeq(stack, 1, Len(stack) - 2), node)
    /\ pos' = pos + 1
    /\ UNCHANGED <<pc, source, cleaned, idx, buffer, tokens, output, opstack,
                   root, outcome>>
    /\ UNCHANGED visits
    /\ UNCHANGED valueVars

\* stack.pop().expect("Stack shouldn't be empty? :(") on either pop.
TreeBinaryPanic ==
    /\ Building
    /\ output[pos].type = "Operator"
    /\ output[pos] # OpTok("USub")
    /\ Len(stack) < 2
    /\ outcome' = Panic("Stack shouldn't be empty? :(")
    /\ pc' = "done"
    /\ UNCHANGED <<source, cleaned, idx, buffer, tokens, pos, output,
                   opstack, stack, root>>
    /\ UNCHANGED visits
    /\ UNCHANGED valueVars

\* `_ => unreachable!()`: a paren token in the postfix stream.
TreeParenPanic ==
    /\ Building
    /\ output[pos].type = "Paren"
    /\ outcome' = Panic("internal error: entered unreachable code")
    /\ pc' = "done"
    /\ UNCHANGED <<source, cleaned, idx, buffer, tokens, pos, output,
                   opstack, stack, root>>
    /\ UNCHANGED visits
    /\ UNCHANGED valueVars

\* Tree { root: stack.pop().expect(..) }: the top node becomes the root,
\* whatever else is on the stack is dropped.
TreeEnd ==
    /\ pc = "tree_from"
    /\ pos > Len(output)
    /\ Len(stack) >= 1
    /\ root' = <<stack[Len(stack)]>>
    /\ stack' = SubSeq(stack, 1, Len(stack) - 1)
    /\ pc' = "evaluate"
    /\ UNCHANGED <<source, cleaned, idx, buffer, tokens, pos, output,
                   opstack, outcome>>
    /\ UNCHANGED visits
    /\ UNCHANGED valueVars

TreeEndPanic ==
    /\ pc = "tree_from"
    /\ pos > Len(output)
    /\ Len(stack) = 0
    /\ outcome' = Panic("Empty string? maybe? (stack empty)")
    /\ pc' = "done"
    /\ UNCHANGED <<source, cleaned, idx, buffer, tokens, pos, output,
                   opstack, stack, root>>
    /\ UNCHANGED visits
    /\ UNCHANGED valueVars

(***************************************************************************)
(* Tree::evaluate                                                          *)
(***************************************************************************)
\* Node::evaluate.  A panic in a child unwinds through the parent; the left
\* child is evaluated before the right one.  USub negates with `-` directly,
\* every other operator goes through Operator::evaluate.
RECURSIVE Node_evaluate(_)
Node_evaluate(n) ==
    IF n.token.type = "Value" THEN n.token.value
    ELSE IF n.token.op = "USub"
    THEN LET r == Node_evaluate(n.right[1])
         IN  IF IsPanic(r) THEN r ELSE Value_neg(r)
    ELSE LET l == Node_evaluate(n.left[1])
         IN  IF IsPanic(l) THEN l
             ELSE LET r == Node_evaluate(n.right[1])
                  IN  IF IsPanic(r) THEN r
                      ELSE Operator_evaluate(n.token.op, l, r)

\* calc: tree.evaluate(), the value main prints.
Evaluate ==
    /\ pc = "evaluate"
    /\ outcome' = Node_evaluate(root[1])
    /\ pc' = "done"
    /\ UNCHANGED <<source, cleaned, idx, buffer, tokens, pos, output,
                   opstack, stack, root>>
    /\ UNCHANGED visits
    /\ UNCHANGED valueVars

(***************************************************************************)
(* Input lines                                                             *)
(***************************************************************************)
\* Characters of the enumerated input lines: digits, '.', every operator
\* and paren, '^' (kept by the filter) and 'a' (dropped by it).
Alphabet == {"0", "1", "2", ".", "-", "+", "*", "/", "(", ")", "^", "a"}

RECURSIVE Lines(_)
Lines(n) ==
    IF n = 0 THEN {<<>>}
    ELSE LET S == Lines(n - 1)
         IN  S \cup {Append(s, c) : s \in {t \in S : Len(t) = n - 1},
                                    c \in Alphabet}

\* The decimal digits of n >= 0.
RECURSIVE ToDigits(_)
ToDigits(n) ==
    IF n < 10 THEN <<DigitChars[n + 1]>>
    ELSE Append(ToDigits(n \div 10), DigitChars[(n % 10) + 1])

Minus(neg) == IF neg THEN <<"-">> ELSE <<>>

\* "-a + -b"
NegSum(a, b) ==
    <<"-">> \o ToDigits(a) \o <<" ", "+", " ", "-">> \o ToDigits(b)

\* "a/b" with an optional leading unary minus on each operand.
DivExpr(na, a, nb, b) ==
    Minus(na) \o ToDigits(a) \o <<"/">> \o Minus(nb) \o ToDigits(b)

\* "1/0"
Src_1_div_0 == <<"1", "/", "0">>

\* "1/(2-2)"
Src_1_div_2m2 == <<"1", "/", "(", "2", "-", "2", ")">>

\* "((10 * 2) / 4 + (2 * 4) * 2)"
Src_complex ==
    <<"(", "(", "1", "0", " ", "*", " ", "2", ")", " ", "/", " ", "4", " ",
      "+", " ", "(", "2", " ", "*", " ", "4", ")", " ", "*", " ", "2", ")">>

\* "(1+2"
Src_unclosed == <<"(", "1", "+", "2">>

\* "1+2)"
Src_unopened == <<"1", "+", "2", ")">>

\* "(1)(2)"
Src_two_groups == <<"(", "1", ")", "(", "2", ")">>

\* "(10+5)"
Src_basic == <<"(", "1", "0", "+", "5", ")">>

NamedSources ==
    {Src_1_div_0, Src_1_div_2m2, Src_complex, Src_unclosed, Src_unopened,
     Src_two_groups, Src_basic}

Sources ==
    NamedSources
    \cup Lines(MaxSrcLen)
    \cup {NegSum(a, b) : a \in 0..MaxLit, b \in 0..MaxLit}
    \cup {DivExpr(na, a, nb, b) : na \in BOOLEAN, a \in 0..MaxLit,
                                  nb \in BOOLEAN, b \in 0..MaxLit}

(***************************************************************************)
(* Spec: calc(source)                                                      *)
(***************************************************************************)
Init ==
    /\ pc = "start"
    /\ source \in Sources
    /\ cleaned = <<>>
    /\ idx = 1
    /\ buffer = <<>>
    /\ visits = <<>>
    /\ tokens = <<>>
    /\ pos = 1
    /\ output = <<>>
    /\ opstack = <<>>
    /\ stack = <<>>
    /\ root = <<>>
    /\ outcome = None
    /\ lhs = None
    /\ rhs = None
    /\ res = None
    /\ applied = <<>>

Next ==
    \/ TokStart
    \/ TokUnaryMinus
    \/ TokNumber
    \/ TokCommit
    \/ TokCommitPanic
    \/ TokOperator
    \/ TokParen
    \/ TokNoBranch
    \/ TokEnd
    \/ TokEndPanic
    \/ SYValue
    \/ SYOperator
    \/ SYLeftParen
    \/ SYRightParen
    \/ SYEnd
    \/ TreeValue
    \/ TreeUSub
    \/ TreeUSubPanic
    \/ TreeBinary
    \/ TreeBinaryPanic
    \/ TreeParenPanic
    \/ TreeEnd
    \/ TreeEndPanic
    \/ Evaluate

Spec == Init /\ [][Next]_vars

\* tokenize alone, called on one line: a sequential loop, so whenever an
\* iteration is possible one is taken.
InitTokenize ==
    /\ pc = "start"
    /\ source \in Lines(MaxSrcLen)
    /\ cleaned = <<>>
    /\ idx = 1
    /\ buffer = <<>>
    /\ visits = <<>>
    /\ tokens = <<>>
    /\ pos = 1
    /\ output = <<>>
    /\ opstack = <<>>
    /\ stack = <<>>
    /\ root = <<>>
    /\ outcome = None
    /\ lhs = None
    /\ rhs = None
    /\ res = None
    /\ applied = <<>>

NextTokenize ==
    \/ TokStart
    \/ TokUnaryMinus
    \/ TokNumber
    \/ TokCommit
    \/ TokCommitPanic
    \/ TokOperator
    \/ TokParen
    \/ TokNoBranch
    \/ TokEnd
    \/ TokEndPanic

SpecTokenize ==
    InitTokenize /\ [][NextTokenize]_vars /\ WF_vars(NextTokenize)

(***************************************************************************)
(* SpecValue: the operators of value.rs on drawn operands                  *)
(***************************************************************************)
\* Integer and Rational operands with a non-zero divisor, simplified or not.
Operands ==
    {Integer(i) : i \in -MaxRem..MaxRem}
    \cup {Rational(q, r, d) : q \in -MaxQuot..MaxQuot, r \in -MaxRem..MaxRem,
                              d \in (-MaxRem..MaxRem) \ {0}}

lexVars == <<source, cleaned, idx, buffer, visits, tokens, pos, output,
             opstack, stack, root, outcome>>

InitValue ==
    /\ pc = "value"
    /\ lhs \in Operands
    /\ rhs \in Operands
    /\ res = None
    /\ applied = <<>>
    /\ source = <<>>
    /\ cleaned = <<>>
    /\ idx = 1
    /\ buffer = <<>>
    /\ visits = <<>>
    /\ tokens = <<>>
    /\ pos = 1
    /\ output = <<>>
    /\ opstack = <<>>
    /\ stack = <<>>
    /\ root = <<>>
    /\ outcome = None

Fresh == pc = "value" /\ applied = <<>>

ApplyAdd ==
    /\ Fresh
    /\ res' = Value_add(lhs, rhs)
    /\ applied' = <<"add">>
    /\ UNCHANGED <<pc, lhs, rhs>>
    /\ UNCHANGED lexVars

ApplySub ==
    /\ Fresh
    /\ res' = Value_sub(lhs, rhs)
    /\ applied' = <<"sub">>
    /\ UNCHANGED <<pc, lhs, rhs>>
    /\ UNCHANGED lexVars

ApplyMul ==
    /\ Fresh
    /\ res' = Value_mul(lhs, rhs)
    /\ applied' = <<"mul">>
    /\ UNCHANGED <<pc, lhs, rhs>>
    /\ UNCHANGED lexVars

ApplyDiv ==
    /\ Fresh
    /\ res' = Value_div(lhs, rhs)
    /\ applied' = <<"div">>
    /\ UNCHANGED <<pc, lhs, rhs>>
    /\ UNCHANGED lexVars

ApplyNeg ==
    /\ Fresh
    /\ res' = Value_neg(lhs)
    /\ applied' = <<"neg">>
    /\ UNCHANGED <<pc, lhs, rhs>>
    /\ UNCHANGED lexVars

ApplySimplify ==
    /\ Fresh
    /\ res' = simplify(lhs)
    /\ applied' = <<"simplify">>
    /\ UNCHANGED <<pc, lhs, rhs>>
    /\ UNCHANGED lexVars

\* simplify called on the value an earlier call returned.
ApplySimplifyAgain ==
    /\ pc = "value"
    /\ applied # <<>>
    /\ Len(applied) < MaxApplied
    /\ ~IsPanic(res)
    /\ res' = simplify(res)
    /\ applied' = Append(applied, "simplify")
    /\ UNCHANGED <<pc, lhs, rhs>>
    /\ UNCHANGED lexVars

NextValue ==
    \/ ApplyAdd
    \/ ApplySub
    \/ ApplyMul
    \/ ApplyDiv
    \/ ApplyNeg
    \/ ApplySimplify
    \/ ApplySimplifyAgain

SpecValue == InitValue /\ [][NextValue]_vars

(***************************************************************************)
(* Properties                                                              *)
(***************************************************************************)
Done == pc = "done"

IsValue(o) == o.kind \in {"Integer", "Rational"}

\* C1: evaluating a division whose divisor is exactly zero ("1/0", and the
\* computed zero of "1/(2-2)") yields the recoverable DivisionByZero
\* outcome, never a panic.
C1_DivisionByZeroRecoverable ==
    (Done /\ source \in {Src_1_div_0, Src_1_div_2m2})
        => (outcome.kind = "DivisionByZero" /\ ~IsPanic(outcome))

\* C2: for whole-number literals a and b, "-a + -b" evaluates to
\* Integer(-(a + b)); in particular "-10 + -5" gives Integer(-15).
C2_NegSumValue ==
    \A a \in 0..MaxLit, b \in 0..MaxLit :
        (Done /\ source = NegSum(a, b)) => outcome = Integer(-(a + b))

\* C3: "((10 * 2) / 4 + (2 * 4) * 2)" evaluates to Integer(21).
C3_ComplexValue ==
    (Done /\ source = Src_complex) => outcome = Integer(21)

\* The integer a literal with an optional unary minus denotes.
Signed(neg, n) == IF neg THEN -n ELSE n

\* C4: for integers a and b # 0, "a/b" evaluates to Integer(a/b) when b
\* divides a, and otherwise to a Rational with gcd(remainder, divisor) = 1
\* and |remainder| < |divisor|.
C4_DivisionResult ==
    \A na \in BOOLEAN, nb \in BOOLEAN, a \in 0..MaxLit, b \in 1..MaxLit :
        (Done /\ source = DivExpr(na, a, nb, b)) =>
            IF a % b = 0
            THEN outcome = Integer(TruncDiv(Signed(na, a), Signed(nb, b)))
            ELSE /\ outcome.kind = "Rational"
                 /\ gcd(outcome.remainder, outcome.divisor) = 1
                 /\ Abs(outcome.remainder) < Abs(outcome.divisor)

\* The normalization invariant of a Value.
Normalized(v) ==
    \/ v.kind = "Integer"
    \/ /\ v.kind = "Rational"
       /\ v.divisor # 0
       /\ gcd(Abs(v.remainder), Abs(v.divisor)) = 1
       /\ Abs(v.remainder) < Abs(v.divisor)
       /\ v.remainder # 0

ArithmeticOps == {"add", "sub", "mul", "div", "neg"}

\* C5: every value returned by Add, Sub, Mul, Div or negation satisfies
\* the normalization invariant, whatever the operands.
C5_ResultsNormalized ==
    (Len(applied) = 1 /\ applied[1] \in ArithmeticOps /\ IsValue(res))
        => Normalized(res)

HasParen(toks) == \E i \in 1..Len(toks) : toks[i].type = "Paren"

\* C6: for "(1+2" shunting_yard does not emit the dangling left paren into
\* the postfix output, and the outcome is the recoverable ParseError, not
\* a panic.
C6_UnclosedParenIsParseError ==
    source = Src_unclosed =>
        /\ pc \in {"tree_from", "evaluate", "done"} => ~HasParen(output)
        /\ Done => (outcome.kind = "ParseError" /\ ~IsPanic(outcome))

\* Some right paren of toks has no left paren open before it, which is when
\* shunting_yard meets it with no left paren on the operator stack.
RECURSIVE UnmatchedRight(_, _)
UnmatchedRight(toks, depth) ==
    IF toks = <<>> THEN FALSE
    ELSE IF Head(toks) = ParenTok("Left")
    THEN UnmatchedRight(Tail(toks), depth + 1)
    ELSE IF Head(toks) = ParenTok("Right")
    THEN depth = 0 \/ UnmatchedRight(Tail(toks), depth - 1)
    ELSE UnmatchedRight(Tail(toks), depth)

\* C7: a right paren met while the operator stack holds no left paren
\* (as in "1+2)") gives a ParseError, never a postfix sequence that
\* evaluates to a value.
C7_UnopenedParenIsParseError ==
    (Done /\ UnmatchedRight(tokens, 0)) =>
        (~IsValue(outcome) /\ (source = Src_unopened =>
                                   outcome.kind = "ParseError"))

\* C8: when the tree builder has consumed every postfix token, exactly one
\* node must be on its stack; with more than one (postfix "1 2" from
\* "(1)(2)") or none, the outcome is a ParseError and no Tree is produced.
C8_ExactlyOneNodeRemains ==
    /\ pc = "evaluate" => stack = <<>>
    /\ (Done /\ source \in {Src_two_groups, <<>>}) =>
           (outcome.kind = "ParseError" /\ root = <<>>)

LastApplied == applied[Len(applied)]

\* C9: simplify is idempotent: once simplify has returned a value,
\* applying simplify to that value returns it unchanged.
C9_SimplifyIdempotent ==
    [][(applied # <<>> /\ LastApplied = "simplify") => res' = res]_vars

\* simplify has been applied to its own result, and the first application
\* changed a Rational into a different Rational.
C9_Witness ==
    /\ applied = <<"simplify", "simplify">>
    /\ lhs.kind = "Rational"
    /\ res.kind = "Rational"
    /\ res # lhs

LastIsOperatorOrLeft(toks) ==
    \/ toks = <<>>
    \/ toks[Len(toks)].type = "Operator"
    \/ toks[Len(toks)] = ParenTok("Left")

\* C10: when tokenize scans a '-': with an empty buffer it emits USub if no
\* token has been emitted or the last one is an operator or a left paren,
\* and the binary Sub otherwise; with a pending number it first flushes the
\* number as a value token (or fails on a bad literal) and stays on the '-'.
C10_MinusClassification ==
    [][(Scanning /\ cleaned[idx] = "-") =>
        IF buffer = <<>> /\ LastIsOperatorOrLeft(tokens)
        THEN tokens' = Append(tokens, OpTok("USub")) /\ idx' = idx + 1
        ELSE IF buffer = <<>>
        THEN tokens' = Append(tokens, OpTok("Sub")) /\ idx' = idx + 1
        ELSE \/ /\ Len(tokens') = Len(tokens) + 1
                /\ tokens'[Len(tokens')].type = "Value"
                /\ SubSeq(tokens', 1, Len(tokens)) = tokens
                /\ buffer' = <<>>
                /\ idx' = idx
             \/ IsPanic(outcome') /\ tokens' = tokens]_vars

\* A binary Sub emitted right after a flushed number and a USub emitted
\* right after an operator, in one finished token list.
C10_Witness ==
    /\ pc = "shunting_yard"
    /\ \E i \in 2..Len(tokens) :
           tokens[i] = OpTok("Sub") /\ tokens[i - 1].type = "Value"
    /\ \E i \in 2..Len(tokens) :
           tokens[i] = OpTok("USub") /\ tokens[i - 1].type = "Operator"

(***************************************************************************)
(* tokenize as a function of its argument                                  *)
(***************************************************************************)
\* A returned Vec<Token>.
Tokens(toks) == [kind |-> "Tokens", tokens |-> toks]

\* The while loop of tokenize from index i with the given buffer and
\* tokens, to its return value: the token list, or the panic of a failed
\* buffer.parse().
RECURSIVE tokenize_scan(_, _, _, _)
tokenize_scan(cl, i, buf, toks) ==
    IF i > Len(cl)
    THEN IF buf = <<>> THEN Tokens(toks)
         ELSE IF parse_f64_ok(buf)
         THEN Tokens(Append(toks, ValTok(Value_from_f64(buf))))
         ELSE Panic("Failed to parse token from buffer")
    ELSE LET c == cl[i]
         IN  IF is_unary_minus(toks, buf, c)
             THEN tokenize_scan(cl, i + 1, buf, Append(toks, OpTok("USub")))
             ELSE IF c \in Digit \cup {"."}
             THEN tokenize_scan(cl, i + 1, Append(buf, c), toks)
             ELSE IF buf # <<>>
             THEN IF parse_f64_ok(buf)
                  THEN tokenize_scan(cl, i, <<>>,
                                     Append(toks, ValTok(Value_from_f64(buf))))
                  ELSE Panic("Failed to parse buffer")
             ELSE IF c \in OperatorChars
             THEN tokenize_scan(cl, i + 1, buf,
                                Append(toks, OpTok(Operator_from_char(c))))
             ELSE IF c \in ParenChars
             THEN tokenize_scan(cl, i + 1, buf,
                                Append(toks, ParenTok(Paren_from_char(c))))
             ELSE tokenize_scan(cl, i + 1, buf, toks)

\* pub fn tokenize(s: &str) -> Vec<Token>
tokenize(s) == tokenize_scan(Filter(s), 1, <<>>, <<>>)

LexPanicMsgs == {"Failed to parse buffer", "Failed to parse token from buffer"}

\* tokenize has returned or panicked in this run.
TokenizeOver == pc \notin {"start", "tokenize", "value"}

\* What tokenize produced in this run: its panic, or the token list.
LexResult ==
    IF IsPanic(outcome) /\ outcome.msg \in LexPanicMsgs THEN outcome
    ELSE Tokens(tokens)

\* The same token list, or a panic both times (whichever expect it was).
SameLexResult(a, b) ==
    IF IsPanic(a) \/ IsPanic(b) THEN a.kind = b.kind ELSE a = b

\* s with every character outside `keep` removed.
RECURSIVE StripTo(_, _)
StripTo(s, keep) ==
    IF s = <<>> THEN <<>>
    ELSE IF Head(s) \in keep THEN <<Head(s)>> \o StripTo(Tail(s), keep)
    ELSE StripTo(Tail(s), keep)

\* The recognized set as the specification lists it.
RecognizedSet == Digit \cup {".", "+", "-", "*", "/", "(", ")"}

\* C11 as stated: characters outside digits, '.', '+', '-', '*', '/', '(',
\* ')' have no effect: tokenizing the line gives what tokenizing the line
\* with those characters removed gives.
C11_UnrecognizedHaveNoEffect ==
    TokenizeOver =>
        SameLexResult(LexResult, tokenize(StripTo(source, RecognizedSet)))

\* C11 amended: characters outside digits, '.', '+', '-', '*', '/', '^',
\* '(', ')' have no effect on the result of tokenize ('^' is kept by the
\* filter: it emits no token but ends a pending numeric literal).
C11_FilteredHaveNoEffect ==
    TokenizeOver =>
        SameLexResult(LexResult,
                      tokenize(StripTo(source, RecognizedSet \cup {"^"})))

\* A dropped character stood between two digits and the line became one
\* value token.
C11_Witness ==
    /\ pc = "shunting_yard"
    /\ Len(tokens) = 1
    /\ Len(source) = 3
    /\ source[1] \in Digit
    /\ source[2] \notin RecognizedSet \cup {"^"}
    /\ source[3] \in Digit

(***************************************************************************)
(* SpecParse: the token sequences of the grammar                           *)
(*   expr := term (('+'|'-') term)*     term := unary (('*'|'/') unary)*   *)
(*   unary := '-' unary | primary       primary := NUMBER | '(' expr ')'   *)
(***************************************************************************)
\* The token tokenize emits for the whole-number literal k.
Lit(k) == ValTok(Rational(0, k, 1))

\* The sentences of exactly n tokens, every NUMBER being Lit(0).
RECURSIVE G_expr(_), G_term(_), G_unary(_), G_primary(_)
G_primary(n) ==
    (IF n = 1 THEN {<<Lit(0)>>} ELSE {})
    \cup (IF n >= 3
          THEN {<<ParenTok("Left")>> \o e \o <<ParenTok("Right")>> :
                    e \in G_expr(n - 2)}
          ELSE {})

G_unary(n) ==
    G_primary(n)
    \cup (IF n >= 2 THEN {<<OpTok("USub")>> \o x : x \in G_unary(n - 1)}
          ELSE {})

G_term(n) ==
    G_unary(n)
    \cup UNION {{t \o <<OpTok(op)>> \o u :
                     t \in G_term(k), u \in G_unary(n - k - 1),
                     op \in {"Mul", "Div"}} : k \in 1..(n - 2)}

G_expr(n) ==
    G_term(n)
    \cup UNION {{e \o <<OpTok(op)>> \o t :
                     e \in G_expr(k), t \in G_term(n - k - 1),
                     op \in {"Add", "Sub"}} : k \in 1..(n - 2)}

\* toks with its value tokens replaced by Lit(k + 1), Lit(k + 2), ... in
\* input order.
RECURSIVE Renumber(_, _)
Renumber(toks, k) ==
    IF toks = <<>> THEN <<>>
    ELSE IF Head(toks).type = "Value"
    THEN <<Lit(k + 1)>> \o Renumber(Tail(toks), k + 1)
    ELSE <<Head(toks)>> \o Renumber(Tail(toks), k)

GrammarTokens ==
    UNION {{Renumber(t, 0) : t \in G_expr(n)} : n \in 1..MaxTokLen}

InitParse ==
    /\ pc = "shunting_yard"
    /\ tokens \in GrammarTokens
    /\ pos = 1
    /\ output = <<>>
    /\ opstack = <<>>
    /\ stack = <<>>
    /\ root = <<>>
    /\ outcome = None
    /\ source = <<>>
    /\ cleaned = <<>>
    /\ idx = 1
    /\ buffer = <<>>
    /\ visits = <<>>
    /\ lhs = None
    /\ rhs = None
    /\ res = None
    /\ applied = <<>>

\* The steps a sentence of the grammar takes; the panic arms of Tree::from
\* are not among them (C12_PostfixMatchesGrammar checks none is enabled).
NextParse ==
    \/ SYValue
    \/ SYOperator
    \/ SYLeftParen
    \/ SYRightParen
    \/ SYEnd
    \/ TreeValue
    \/ TreeUSub
    \/ TreeBinary
    \/ TreeEnd
    \/ Evaluate

SpecParse == InitParse /\ [][NextParse]_vars

(***************************************************************************)
(* A recursive-descent parser of the grammar, for reference                *)
(***************************************************************************)
RDFail == [ok |-> FALSE]

RDOk(t, n) == [ok |-> TRUE, tree |-> t, next |-> n]

RDNode(t, l, r) == [token |-> t, left |-> l, right |-> r]

IsOpIn(toks, i, ops) ==
    i <= Len(toks) /\ toks[i].type = "Operator" /\ toks[i].op \in ops

RECURSIVE RD_expr(_, _), RD_expr_rest(_, _, _), RD_term(_, _),
          RD_term_rest(_, _, _), RD_unary(_, _), RD_primary(_, _)
RD_primary(toks, i) ==
    IF i > Len(toks) THEN RDFail
    ELSE IF toks[i].type = "Value"
    THEN RDOk(RDNode(toks[i], <<>>, <<>>), i + 1)
    ELSE IF toks[i] = ParenTok("Left")
    THEN LET e == RD_expr(toks, i + 1)
         IN  IF e.ok /\ e.next <= Len(toks)
                /\ toks[e.next] = ParenTok("Right")
             THEN RDOk(e.tree, e.next + 1)
             ELSE RDFail
    ELSE RDFail

RD_unary(toks, i) ==
    IF IsOpIn(toks, i, {"USub"})
    THEN LET u == RD_unary(toks, i + 1)
         IN  IF u.ok THEN RDOk(RDNode(toks[i], <<>>, <<u.tree>>), u.next)
             ELSE RDFail
    ELSE RD_primary(toks, i)

RD_term_rest(toks, left, i) ==
    IF IsOpIn(toks, i, {"Mul", "Div"})
    THEN LET u == RD_unary(toks, i + 1)
         IN  IF u.ok
             THEN RD_term_rest(toks, RDNode(toks[i], <<left>>, <<u.tree>>),
                               u.next)
             ELSE RDFail
    ELSE RDOk(left, i)

RD_term(toks, i) ==
    LET u == RD_unary(toks, i)
    IN  IF u.ok THEN RD_term_rest(toks, u.tree, u.next) ELSE RDFail

RD_expr_rest(toks, left, i) ==
    IF IsOpIn(toks, i, {"Add", "Sub"})
    THEN LET t == RD_term(toks, i + 1)
         IN  IF t.ok
             THEN RD_expr_rest(toks, RDNode(toks[i], <<left>>, <<t.tree>>),
                               t.next)
             ELSE RDFail
    ELSE RDOk(left, i)

RD_expr(toks, i) ==
    LET t == RD_term(toks, i)
    IN  IF t.ok THEN RD_expr_rest(toks, t.tree, t.next) ELSE RDFail

\* The parse of the whole sequence, RDFail unless every token is consumed.
RD_parse(toks) ==
    LET e == RD_expr(toks, 1)
    IN  IF e.ok /\ e.next = Len(toks) + 1 THEN e ELSE RDFail

\* Postfix linearization: left subtree, right subtree, then the node.
RECURSIVE Postfix(_)
Postfix(n) ==
    (IF n.left = <<>> THEN <<>> ELSE Postfix(n.left[1]))
    \o (IF n.right = <<>> THEN <<>> ELSE Postfix(n.right[1]))
    \o <<n.token>>

\* C12: for every token sequence of the grammar, the output of
\* shunting_yard is the postfix linearization of the grammar's parse tree
\* (so it holds no paren and keeps the values in input order), the tree
\* Tree::from builds is the tree the recursive-descent parser builds, with
\* no node left over, and no step of the way panics or gets stuck.
C12_PostfixMatchesGrammar ==
    /\ RD_parse(tokens).ok
    /\ pc \in {"tree_from", "evaluate", "done"} =>
           output = Postfix(RD_parse(tokens).tree)
    /\ pc \in {"evaluate", "done"} =>
           root = <<RD_parse(tokens).tree>> /\ stack = <<>>
    /\ pc \in {"shunting_yard", "tree_from"} => ENABLED NextParse

SamePrecedence(a, b) ==
    a.type = "Operator" /\ b.type = "Operator" /\ precedence(a) = precedence(b)

\* A tree was built whose root and left child are binary operators of the
\* same precedence (left grouping), from a sequence holding a unary minus
\* and two different operators at that level.
C12_Witness ==
    /\ pc = "evaluate"
    /\ \E i \in 1..Len(tokens) : tokens[i] = OpTok("USub")
    /\ root[1].left # <<>>
    /\ SamePrecedence(root[1].token, root[1].left[1].token)
    /\ root[1].token # root[1].left[1].token

(***************************************************************************)
(* Literals and exactness of the arithmetic                                *)
(***************************************************************************)
\* C13: the Value built for a numeric literal is in simplified form: every
\* value token tokenize emits is normalized, and the whole-number literals
\* a and b of "a/b" come out as Integer(a) and Integer(b).
C13_LiteralsSimplified ==
    /\ \A i \in 1..Len(tokens) :
           tokens[i].type = "Value" => Normalized(tokens[i].value)
    /\ \A a \in 0..MaxLit, b \in 0..MaxLit :
           (pc = "shunting_yard" /\ source = DivExpr(FALSE, a, FALSE, b)) =>
               /\ tokens[1] = ValTok(Integer(a))
               /\ tokens[3] = ValTok(Integer(b))

\* The number a Value denotes, quotient + remainder/divisor, as the
\* fraction Num(v) / Den(v).
Num(v) ==
    IF v.kind = "Integer" THEN v.i ELSE v.quotient * v.divisor + v.remainder

Den(v) == IF v.kind = "Integer" THEN 1 ELSE v.divisor

\* n1/d1 = n2/d2 for non-zero d1, d2.
SameFraction(n1, d1, n2, d2) == d1 # 0 /\ d2 # 0 /\ n1 * d2 = n2 * d1

\* C14: subtraction is exact for every combination of operand kinds: the
\* result of a - b denotes denote(a) - denote(b).
C14_SubExact ==
    applied = <<"sub">> =>
        /\ IsValue(res)
        /\ SameFraction(Num(res), Den(res),
                        Num(lhs) * Den(rhs) - Num(rhs) * Den(lhs),
                        Den(lhs) * Den(rhs))

\* C15: division is exact for every combination of operand kinds: when
\* denote(b) # 0 the result of a / b denotes denote(a) / denote(b).
C15_DivExact ==
    (applied = <<"div">> /\ Num(rhs) # 0) =>
        /\ IsValue(res)
        /\ SameFraction(Num(res), Den(res),
                        Num(lhs) * Den(rhs), Den(lhs) * Num(rhs))

\* C16: negation returns the exact additive inverse: -v denotes
\* -(quotient + remainder/divisor), and Integer(i) gives Integer(-i).
C16_NegExact ==
    applied = <<"neg">> =>
        /\ IsValue(res)
        /\ SameFraction(Num(res), Den(res), -Num(lhs), Den(lhs))
        /\ lhs.kind = "Integer" => res = Integer(-lhs.i)

(***************************************************************************)
(* Termination of tokenize                                                 *)
(***************************************************************************)
Numeric == Digit \cup {"."}

\* The maximal runs of digits and '.' of s, in order; cur is the run being
\* read.
RECURSIVE Runs(_, _)
Runs(s, cur) ==
    IF s = <<>> THEN (IF cur = <<>> THEN <<>> ELSE <<cur>>)
    ELSE IF Head(s) \in Numeric THEN Runs(Tail(s), Append(cur, Head(s)))
    ELSE (IF cur = <<>> THEN <<>> ELSE <<cur>>) \o Runs(Tail(s), <<>>)

\* Every numeric literal of the filtered line parses.
LiteralsParse ==
    LET runs == Runs(StripTo(source, FilterSet), <<>>)
    IN  \A i \in 1..Len(runs) : parse_f64_ok(runs[i])

IsValueTok(t) == t.type = "Value"

\* The value tokens are exactly the runs, one token per run, in order.
OneTokenPerRun ==
    LET runs == Runs(StripTo(source, FilterSet), <<>>)
        vals == SelectSeq(tokens, IsValueTok)
    IN  /\ Len(vals) = Len(runs)
        /\ \A i \in 1..Len(runs) : vals[i].value = Value_from_f64(runs[i])

\* One iteration of the scan loop that stays in the loop.
LoopStep == pc = "tokenize" /\ pc' = "tokenize" /\ visits' # visits

\* C17: tokenize terminates on every line whose literals parse: the index
\* never moves back past its position and stays only when a non-empty
\* buffer is flushed (idx -= 1 undone by idx += 1), the buffer is then
\* empty so the next iteration advances, no index is visited more than
\* twice, and each maximal run of digits and '.' becomes exactly one value
\* token, a trailing run included.
C17_TokenizeTerminates ==
    /\ <>TokenizeOver
    /\ [][LoopStep =>
            /\ idx' = idx \/ idx' = idx + 1
            /\ idx' = idx =>
                   /\ buffer # <<>> /\ buffer' = <<>>
                   /\ Len(tokens') = Len(tokens) + 1
            /\ buffer = <<>> => idx' = idx + 1]_vars
    /\ [](\A i \in 1..Len(visits) : visits[i] <= 2)
    /\ [](LiteralsParse =>
            /\ ~(IsPanic(outcome) /\ outcome.msg \in LexPanicMsgs)
            /\ TokenizeOver =>
                   /\ OneTokenPerRun
                   /\ \A i \in 1..Len(visits) : visits[i] >= 1)

\* tokenize returned after visiting an index twice, and the last value
\* token is a trailing run flushed at the end of the input.
C17_Witness ==
    /\ pc = "shunting_yard"
    /\ \E i \in 1..Len(visits) : visits[i] = 2
    /\ Len(cleaned) >= 3
    /\ cleaned[Len(cleaned)] \in Numeric
    /\ Len(SelectSeq(tokens, IsValueTok)) = 2

====
